---- MODULE Spec2Model ----
(***************************************************************************)
(* The streaming branch of app.post('/v1/chat/completions') of the         *)
(* OpenAI -> NVIDIA NIM proxy, in its two transcoding variants             *)
(* (src/server.js and src/unnamed/part_001).                               *)
(*                                                                         *)
(* The upstream byte stream is a sequence of tokens.  A token is a piece   *)
(* of the stream: a line break, a blank, a carriage return, the word       *)
(* "data:", a piece of the [DONE] sentinel, a piece of a JSON payload, or  *)
(* one of the two bytes of a two-byte UTF-8 character.  A chunk boundary   *)
(* may fall between any two tokens.  The text the handler works on is a    *)
(* sequence of the same tokens, with characters in the place of bytes.     *)
(***************************************************************************)
EXTENDS Integers, Sequences, FiniteSets, TLC

\* ------------------------------------------------------------------ bounds
\* The upstream stream of one request holds at most MaxLines lines of any
\* kind, or at most MaxRun lines of reasoning, content and cut-short events.
MaxLines == 2
MaxRun == 3
\* The streams of two concurrent requests hold at most IsoLines lines each.
IsoLines == 1

\* ------------------------------------------------------------------ tokens
LF == "\\n"
SP == " "
CR == "\\r"
Whitespace == {SP, CR, LF}

\* 'data: ' (the word and the blank after it)
Prefix == <<"data:", SP>>
\* '[DONE]'
DONE == <<"[DONE", "]">>
\* the two bytes of the character U+00E9, the character, and U+FFFD
LeadByte == "\\xC3"
ContByte == "\\xA9"
EAcute == "U+00E9"
Replacement == "U+FFFD"
\* the literal texts the handler inserts
THINK_OPEN == "<think>\\n"
THINK_CLOSE == "</think>\\n\\n"

\* ------------------------------------------------------------ JS values
Undefined == [k |-> "undefined", s |-> <<>>]
Null == [k |-> "null", s |-> <<>>]
Str(s) == [k |-> "string", s |-> s]
\* JS truthiness of undefined, null and strings
Truthy(v) == v.k = "string" /\ v.s # <<>>
\* a || b
Or(a, b) == IF Truthy(a) THEN a ELSE b

\* An object is the sequence of its own properties, in insertion order.
Prop(key, val) == [key |-> key, val |-> val]
Has(o, key) == \E i \in 1..Len(o) : o[i].key = key
\* o.key
Get(o, key) ==
  IF Has(o, key) THEN o[CHOOSE i \in 1..Len(o) : o[i].key = key].val ELSE Undefined
\* o.key = val
Set(o, key, val) ==
  IF Has(o, key)
  THEN [i \in 1..Len(o) |-> IF o[i].key = key THEN Prop(key, val) ELSE o[i]]
  ELSE Append(o, Prop(key, val))
\* delete o.key
Delete(o, key) ==
  LET keep(p) == p.key # key IN SelectSeq(o, keep)

\* ------------------------------------------------------ string functions
\* Buffer.prototype.toString(): the bytes decoded as UTF-8; a lead byte without
\* its continuation byte in the same buffer, and a continuation byte without
\* its lead byte, each decode to U+FFFD
RECURSIVE toString(_)
toString(bytes) ==
  IF bytes = <<>> THEN <<>>
  ELSE IF Len(bytes) >= 2 /\ bytes[1] = LeadByte /\ bytes[2] = ContByte
       THEN <<EAcute>> \o toString(SubSeq(bytes, 3, Len(bytes)))
  ELSE IF Head(bytes) \in {LeadByte, ContByte}
       THEN <<Replacement>> \o toString(Tail(bytes))
  ELSE <<Head(bytes)>> \o toString(Tail(bytes))

\* String.prototype.split('\n')
RECURSIVE split(_)
split(s) ==
  IF \A i \in 1..Len(s) : s[i] # LF THEN <<s>>
  ELSE LET i == CHOOSE i \in 1..Len(s) : s[i] = LF /\ \A j \in 1..(i-1) : s[j] # LF
       IN <<SubSeq(s, 1, i-1)>> \o split(SubSeq(s, i+1, Len(s)))

\* String.prototype.trim()
RECURSIVE trimStart(_)
trimStart(s) ==
  IF s # <<>> /\ Head(s) \in Whitespace THEN trimStart(Tail(s)) ELSE s
RECURSIVE trimEnd(_)
trimEnd(s) ==
  IF s # <<>> /\ s[Len(s)] \in Whitespace THEN trimEnd(SubSeq(s, 1, Len(s)-1)) ELSE s
trim(s) == trimEnd(trimStart(s))

\* String.prototype.startsWith(p)
startsWith(s, p) == Len(s) >= Len(p) /\ SubSeq(s, 1, Len(p)) = p

\* String.prototype.replace(p, ''): the first occurrence of p is removed
RECURSIVE replace(_, _)
replace(s, p) ==
  IF Len(s) < Len(p) THEN s
  ELSE IF startsWith(s, p) THEN SubSeq(s, Len(p)+1, Len(s))
  ELSE <<Head(s)>> \o replace(Tail(s), p)

\* ------------------------------------------------------------------- JSON
\* The opening pieces of the JSON payloads: '{"choices":[{"delta":{...' with
\* the properties of the delta each one carries, in the order of the text.
\* "{usage" opens an event with an empty choices array.
\* "{id,role,cC" opens '{"id":"x","choices":[{"finish_reason":null,"delta":{...'.
DeltaOpenings == {"{rA", "{cC,rN", "{role", "{rA,cC", "{cC", "{id,role,cC", "{cE"}
Openings == DeltaOpenings \cup {"{usage"}
\* the closing piece '}}]}' of a payload
Closing == "}"
\* '{"choices":[{"delta":{"content":"', the beginning of a payload whose
\* content follows character by character, and its end '"}}]}'
ContentOpening == "{c:\""
ContentClosing == "\"}"
Characters == {EAcute, Replacement}

PropsOf(open) ==
  CASE open = "{rA"    -> <<Prop("reasoning_content", Str(<<"A">>))>>
    [] open = "{cC,rN" -> <<Prop("content", Str(<<"C">>)), Prop("reasoning_content", Null)>>
    [] open = "{role"  -> <<Prop("role", Str(<<"assistant">>))>>
    [] open = "{rA,cC" -> <<Prop("reasoning_content", Str(<<"A">>)), Prop("content", Str(<<"C">>))>>
    [] open = "{cC"    -> <<Prop("content", Str(<<"C">>))>>
    [] open = "{cE"    -> <<Prop("content", Str(<<>>))>>
    [] open = "{id,role,cC" ->
         <<Prop("role", Str(<<"assistant">>)), Prop("content", Str(<<"C">>))>>
    [] OTHER           -> <<>>

\* the properties of the event outside choices[0].delta
RestOf(open) ==
  CASE open = "{id,role,cC" -> <<Prop("id", Str(<<"x">>)), Prop("finish_reason", Null)>>
    [] open = "{usage"      -> <<Prop("usage", Str(<<"u">>))>>
    [] OTHER                -> <<>>

\* The outcome of an expression that may throw.
Threw == [threw |-> TRUE, null |-> FALSE, hasDelta |-> FALSE, delta |-> <<>>,
          rest |-> <<>>]
Value(null, hasDelta, delta, rest) ==
  [threw |-> FALSE, null |-> null, hasDelta |-> hasDelta, delta |-> delta,
   rest |-> rest]

\* The value of a JSON text t without white space around it: null, or a
\* complete object; anything else is a SyntaxError.
JSONvalue(t) ==
     IF t = <<"null">> THEN Value(TRUE, FALSE, <<>>, <<>>)
     ELSE IF Len(t) = 2 /\ t[1] \in Openings /\ t[2] = Closing
          THEN Value(FALSE, t[1] \in DeltaOpenings, PropsOf(t[1]), RestOf(t[1]))
     ELSE IF /\ Len(t) >= 2 /\ t[1] = ContentOpening /\ t[Len(t)] = ContentClosing
             /\ \A i \in 2..(Len(t)-1) : t[i] \in Characters
          THEN Value(FALSE, TRUE, <<Prop("content", Str(SubSeq(t, 2, Len(t)-1)))>>, <<>>)
     ELSE Threw

\* JSON.parse(dataStr): white space around the value is allowed
JSONparse(dataStr) == JSONvalue(trim(dataStr))

\* data.choices?.[0]?.delta: reading .choices of null is a TypeError; not
\* reached when JSON.parse threw
choices0delta(data) == IF data.threw \/ data.null THEN Threw ELSE data

\* JSON.stringify of an object: properties whose value is undefined are left out
JSONstringify(o) ==
  LET defined(p) == p.val # Undefined IN SelectSeq(o, defined)

\* the frames written downstream: `data: [DONE]\n\n` and `data: ${json}\n\n`,
\* the latter with the delta of the event and its other properties
DoneFrame == [payload |-> "[DONE]", delta |-> <<>>, rest |-> <<>>]
EventFrame(rest, delta) ==
  [payload |-> "json", delta |-> JSONstringify(delta), rest |-> JSONstringify(rest)]

\* ------------------------------------------------------------ the handler
SHOW_REASONING == TRUE

\* (mutant) the opening marker is put before every piece of reasoning
ServerReasoningContentAlwaysOpens(reasoningStarted, reasoning) ==
  Str(<<THINK_OPEN>> \o reasoning.s)

\* src/server.js: the content of a delta that carries reasoning
ServerReasoningContent(reasoningStarted, reasoning) ==
  IF ~reasoningStarted THEN Str(<<THINK_OPEN>> \o reasoning.s) ELSE reasoning

\* (mutant) the closing branch leaves reasoningStarted set
ServerRewriteStaysOpen(delta, reasoningStarted) ==
  LET content == Or(Get(delta, "content"), Str(<<>>))
      reasoning == Get(delta, "reasoning_content")
  IN IF SHOW_REASONING
     THEN IF Truthy(reasoning)
          THEN [delta |-> Delete(Set(delta, "content",
                                     ServerReasoningContent(reasoningStarted, reasoning)),
                                 "reasoning_content"),
                reasoningStarted |-> TRUE]
          ELSE IF reasoningStarted /\ ~Truthy(reasoning)
               THEN [delta |-> Set(delta, "content", Str(<<THINK_CLOSE>> \o content.s)),
                     reasoningStarted |-> TRUE]
               ELSE [delta |-> delta, reasoningStarted |-> reasoningStarted]
     ELSE IF Truthy(reasoning)
          THEN [delta |-> Delete(Set(delta, "content", Str(<<>>)), "reasoning_content"),
                reasoningStarted |-> reasoningStarted]
          ELSE [delta |-> delta, reasoningStarted |-> reasoningStarted]

\* src/server.js: the rewrite of a delta, and the next reasoningStarted
ServerRewrite(delta, reasoningStarted) ==
  LET content == Or(Get(delta, "content"), Str(<<>>))
      reasoning == Get(delta, "reasoning_content")
  IN IF SHOW_REASONING
     THEN IF Truthy(reasoning)
          THEN [delta |-> Delete(Set(delta, "content",
                                     ServerReasoningContent(reasoningStarted, reasoning)),
                                 "reasoning_content"),
                reasoningStarted |-> TRUE]
          ELSE IF reasoningStarted /\ ~Truthy(reasoning)
               THEN [delta |-> Set(delta, "content", Str(<<THINK_CLOSE>> \o content.s)),
                     reasoningStarted |-> FALSE]
               ELSE [delta |-> delta, reasoningStarted |-> reasoningStarted]
     ELSE IF Truthy(reasoning)
          THEN [delta |-> Delete(Set(delta, "content", Str(<<>>)), "reasoning_content"),
                reasoningStarted |-> reasoningStarted]
          ELSE [delta |-> delta, reasoningStarted |-> reasoningStarted]

\* src/server.js: the condition of res.write
ServerSend(delta) ==
  Truthy(Get(delta, "content")) \/ Get(delta, "reasoning_content") = Undefined

\* src/unnamed/part_001: the rewrite of a delta, and the next reasoningStarted
LorebaryRewrite(delta, reasoningStarted) ==
  LET rc == Get(delta, "reasoning_content")
      content == Or(Get(delta, "content"), Str(<<>>))
      branch ==
        IF SHOW_REASONING /\ Truthy(rc)
        THEN [output |-> IF ~reasoningStarted THEN Str(<<THINK_OPEN>> \o rc.s) ELSE rc,
              reasoningStarted |-> TRUE]
        ELSE IF reasoningStarted /\ ~Truthy(rc)
             THEN [output |-> Str(<<THINK_CLOSE>> \o content.s), reasoningStarted |-> FALSE]
             ELSE [output |-> content, reasoningStarted |-> reasoningStarted]
  IN [delta |-> Delete(Set(delta, "content", branch.output), "reasoning_content"),
      reasoningStarted |-> branch.reasoningStarted]

\* src/unnamed/part_001: the condition of res.write
LorebarySend(delta) == Truthy(Get(delta, "content"))

Variants == {"server.js", "part_001"}
Rewrite(variant, delta, reasoningStarted) ==
  IF variant = "server.js" THEN ServerRewrite(delta, reasoningStarted)
  ELSE LorebaryRewrite(delta, reasoningStarted)
Send(variant, delta) ==
  IF variant = "server.js" THEN ServerSend(delta) ELSE LorebarySend(delta)

\* What the processing of one line did: the branch taken (path), the flag
\* before and after, the frames written, the delta as decoded (incoming) and
\* as rewritten, and whether an exception left the statement.
Outcome(line, path, before, after, writes, incoming, rewritten, threw) ==
  [line |-> line, path |-> path, before |-> before, after |-> after,
   writes |-> writes, incoming |-> incoming, rewritten |-> rewritten,
   threw |-> threw]

\* (mutant) the delta is written in the place of the event
SendBlockDeltaOnly(variant, reasoningStarted, line, data, rw) ==
  Outcome(line, "delta", reasoningStarted, rw.reasoningStarted,
          IF Send(variant, rw.delta) THEN <<EventFrame(<<>>, rw.delta)>> ELSE <<>>,
          data.delta, rw.delta, FALSE)

\* the end of the try block: the event data, its delta rewritten as rw, is
\* written, or not
SendBlock(variant, reasoningStarted, line, data, rw) ==
  Outcome(line, "delta", reasoningStarted, rw.reasoningStarted,
          IF Send(variant, rw.delta) THEN <<EventFrame(data.rest, rw.delta)>> ELSE <<>>,
          data.delta, rw.delta, FALSE)

\* (mutant) an event without a delta is given an empty one
DeltaBlockDefaultsDelta(variant, reasoningStarted, line, data) ==
  IF data.threw
  THEN Outcome(line, "threw", reasoningStarted, reasoningStarted,
               <<>>, <<>>, <<>>, TRUE)
  ELSE SendBlock(variant, reasoningStarted, line, data,
                 Rewrite(variant, data.delta, reasoningStarted))

\* the try block after the decoding: if (delta) { ... }
DeltaBlock(variant, reasoningStarted, line, data) ==
  IF data.threw
  THEN Outcome(line, "threw", reasoningStarted, reasoningStarted,
               <<>>, <<>>, <<>>, TRUE)
  ELSE IF ~data.hasDelta
  THEN Outcome(line, "nodelta", reasoningStarted, reasoningStarted,
               <<>>, <<>>, <<>>, FALSE)
  ELSE SendBlock(variant, reasoningStarted, line, data,
                 Rewrite(variant, data.delta, reasoningStarted))

\* the body of the try block
TryBlock(variant, reasoningStarted, line, dataStr) ==
  DeltaBlock(variant, reasoningStarted, line, choices0delta(JSONparse(dataStr)))

\* (mutant) no try/catch around the decoding: the exception leaves the loop
CatchNothing(outcome) == outcome

\* catch (e) {}: the exception is dropped
Catch(outcome) == [outcome EXCEPT !.threw = FALSE]

\* (mutant) an open reasoning block is closed before the sentinel is written
DoneBranchAutoClose(reasoningStarted, line) ==
  Outcome(line, "[DONE]", reasoningStarted, FALSE,
          IF reasoningStarted
          THEN <<EventFrame(<<>>, <<Prop("content", Str(<<THINK_CLOSE>>))>>), DoneFrame>>
          ELSE <<DoneFrame>>,
          <<>>, <<>>, FALSE)

\* if (dataStr === '[DONE]') { res.write(`data: [DONE]\n\n`); continue; }
DoneBranch(reasoningStarted, line) ==
  Outcome(line, "[DONE]", reasoningStarted, reasoningStarted,
          <<DoneFrame>>, <<>>, <<>>, FALSE)

\* the body of the for loop from dataStr on
PayloadBranch(variant, reasoningStarted, line, dataStr) ==
  IF dataStr = DONE
  THEN DoneBranch(reasoningStarted, line)
  ELSE Catch(TryBlock(variant, reasoningStarted, line, dataStr))

\* (mutant) every line is taken for an event line
PrefixBranchUnchecked(variant, reasoningStarted, line, trimmedLine) ==
  PayloadBranch(variant, reasoningStarted, line, replace(trimmedLine, Prefix))

\* the body of the for loop from trimmedLine on
PrefixBranch(variant, reasoningStarted, line, trimmedLine) ==
  IF ~startsWith(trimmedLine, Prefix)
  THEN Outcome(line, "continue", reasoningStarted, reasoningStarted,
               <<>>, <<>>, <<>>, FALSE)
  ELSE PayloadBranch(variant, reasoningStarted, line, replace(trimmedLine, Prefix))

\* the body of the for loop, for one line
ProcessLine(variant, reasoningStarted, line) ==
  PrefixBranch(variant, reasoningStarted, line, trim(line))

\* for (const line of lines): the outcomes of the lines, in order; an exception
\* that leaves the body ends the loop
RECURSIVE ForLines(_, _, _)
\* the loop after the outcome o of the first of lines
RestOfLines(variant, lines, o) ==
  IF o.threw THEN <<o>>
  ELSE <<o>> \o ForLines(variant, o.after, Tail(lines))
ForLines(variant, reasoningStarted, lines) ==
  IF lines = <<>> THEN <<>>
  ELSE RestOfLines(variant, lines, ProcessLine(variant, reasoningStarted, Head(lines)))

RECURSIVE Writes(_)
Writes(outcomes) ==
  IF outcomes = <<>> THEN <<>> ELSE Head(outcomes).writes \o Writes(Tail(outcomes))

\* (mutant) the last element is read and left in the array
popLeavesLast(lines) == [last |-> lines[Len(lines)], rest |-> lines]

\* lines.pop(): the last element, and the array without it
pop(lines) == [last |-> lines[Len(lines)], rest |-> SubSeq(lines, 1, Len(lines)-1)]

\* (mutant) the frames of one callback are written last line first
CallbackLastFirst(reasoningStarted, buffer, outcomes) ==
  [buffer |-> buffer,
   reasoningStarted |-> IF outcomes = <<>> THEN reasoningStarted
                        ELSE outcomes[Len(outcomes)].after,
   writes |-> [i \in 1..Len(Writes(outcomes)) |->
                 Writes(outcomes)[Len(Writes(outcomes)) + 1 - i]],
   outcomes |-> outcomes,
   uncaught |-> outcomes # <<>> /\ outcomes[Len(outcomes)].threw]

\* what one data callback did, from the outcomes of its lines
Callback(reasoningStarted, buffer, outcomes) ==
  [buffer |-> buffer,
   reasoningStarted |-> IF outcomes = <<>> THEN reasoningStarted
                        ELSE outcomes[Len(outcomes)].after,
   writes |-> Writes(outcomes),
   outcomes |-> outcomes,
   uncaught |-> outcomes # <<>> /\ outcomes[Len(outcomes)].threw]

\* the data callback from lines.pop() on
PopAndLoop(variant, reasoningStarted, lines) ==
  Callback(reasoningStarted, pop(lines).last,
           ForLines(variant, reasoningStarted, pop(lines).rest))

\* response.data.on('data', (chunk) => ...)
OnData(variant, buffer, reasoningStarted, chunk) ==
  PopAndLoop(variant, reasoningStarted, split(buffer \o toString(chunk)))

\* ---------------------------------------------------------- the upstream
Event(open) == Prefix \o <<open, Closing>>

\* The lines the upstream sends (without their line break).
LineKinds ==
  { <<>>,                       \* the blank line that ends an event
    Prefix \o DONE \o <<CR>>,   \* 'data: [DONE]\r'
    Event("{rA"),               \* reasoning only
    Event("{cC,rN"),            \* content, reasoning_content: null
    Event("{role"),             \* neither content nor reasoning_content
    Event("{rA,cC"),            \* reasoning and content in one delta
    Event("{cC"),               \* content only
    Event("{usage"),            \* no choices[0]
    Event("{id,role,cC"),       \* content, a role, an id and a finish_reason
    Event("{cE"),               \* content: ""
    <<"{cC", Closing>>,         \* a payload without 'data: ' before it
    Prefix \o <<ContentOpening, LeadByte, ContByte, ContentClosing>>,
                                \* content of one two-byte character
    Prefix \o <<"{rA">>,        \* a payload cut short
    Prefix \o <<"null">> }      \* a payload that decodes to null

\* The lines of the longer streams.
RunKinds == { Event("{rA"), Event("{cC"), Prefix \o <<"{rA">> }

\* The lines of two concurrent requests.
IsoKinds == { Event("{rA"), Event("{cC") }

\* every stream of at most n lines of kinds, each line ended by a line break
RECURSIVE StreamsOf(_, _)
StreamsOf(kinds, n) ==
  IF n = 0 THEN {<<>>}
  ELSE LET shorter == StreamsOf(kinds, n - 1)
       IN shorter \cup {s \o l \o <<LF>> : s \in shorter, l \in kinds}

Streams == StreamsOf(LineKinds, MaxLines) \cup StreamsOf(RunKinds, MaxRun)
IsoStreams == StreamsOf(IsoKinds, IsoLines)

\* ------------------------------------------------------------------ state
VARIABLES
  variant,           \* which of the two files the server runs
  stream,            \* per request: the bytes the upstream sends
  pos,               \* per request: how many of them have been delivered
  buffer,            \* per handler invocation: let buffer
  reasoningStarted,  \* per handler invocation: let reasoningStarted
  out,               \* per request: the frames written with res.write
  ended,             \* per request: res.end() was called
  uncaught,          \* per request: an exception left the data callback
  log,               \* per request: the outcome of every line processed
  straddled,         \* per request: a processed line arrived in several chunks
  appended,          \* per request: the texts appended to the buffer so far
  disconnected       \* per request: the downstream client has gone away

vars == <<variant, stream, pos, buffer, reasoningStarted, out, ended, uncaught,
          log, straddled, appended, disconnected>>

Requests == DOMAIN stream

\* (mutant) buffer and reasoningStarted are declared once, outside the handler
ClosureShared(r) == 1

\* The variables buffer and reasoningStarted of request r: each invocation of
\* the route handler declares its own.
Closure(r) == r

Init(requests, streams) ==
  /\ variant \in Variants
  /\ stream \in [requests -> streams]
  /\ pos = [r \in requests |-> 0]
  /\ buffer = [r \in requests |-> <<>>]
  /\ reasoningStarted = [r \in requests |-> FALSE]
  /\ out = [r \in requests |-> <<>>]
  /\ ended = [r \in requests |-> FALSE]
  /\ uncaught = [r \in requests |-> FALSE]
  /\ log = [r \in requests |-> <<>>]
  /\ straddled = [r \in requests |-> FALSE]
  /\ appended = [r \in requests |-> <<>>]
  /\ disconnected = [r \in requests |-> FALSE]

Received(r) == SubSeq(stream[r], 1, pos[r])

\* (mutant) the callback closes the sink when it has written the sentinel
DataClosesOnDone(r) ==
  /\ ~ended[r]
  /\ \E n \in 1..(Len(stream[r]) - pos[r]) :
     \E chunk \in {SubSeq(stream[r], pos[r] + 1, pos[r] + n)} :
     \E c \in {Closure(r)} :
     \E res \in {OnData(variant, buffer[c], reasoningStarted[c], chunk)} :
          /\ pos' = [pos EXCEPT ![r] = pos[r] + n]
          /\ buffer' = [buffer EXCEPT ![c] = res.buffer]
          /\ reasoningStarted' = [reasoningStarted EXCEPT ![c] = res.reasoningStarted]
          /\ out' = [out EXCEPT ![r] = out[r] \o res.writes]
          /\ uncaught' = [uncaught EXCEPT ![r] = uncaught[r] \/ res.uncaught]
          /\ log' = [log EXCEPT ![r] = log[r] \o res.outcomes]
          /\ straddled' = [straddled EXCEPT ![r] =
                             straddled[r] \/ (buffer[c] # <<>> /\ res.outcomes # <<>>)]
          /\ appended' = [appended EXCEPT ![r] = appended[r] \o toString(chunk)]
          /\ ended' = [ended EXCEPT ![r] =
                         \E i \in 1..Len(res.writes) : res.writes[i] = DoneFrame]
  /\ UNCHANGED <<variant, stream, disconnected>>

\* The upstream delivers the next n bytes of request r as one chunk.
Data(r) ==
  /\ ~ended[r]
  /\ \E n \in 1..(Len(stream[r]) - pos[r]) :
     \E chunk \in {SubSeq(stream[r], pos[r] + 1, pos[r] + n)} :
     \E c \in {Closure(r)} :
     \E res \in {OnData(variant, buffer[c], reasoningStarted[c], chunk)} :
          /\ pos' = [pos EXCEPT ![r] = pos[r] + n]
          /\ buffer' = [buffer EXCEPT ![c] = res.buffer]
          /\ reasoningStarted' = [reasoningStarted EXCEPT ![c] = res.reasoningStarted]
          /\ out' = [out EXCEPT ![r] = out[r] \o res.writes]
          /\ uncaught' = [uncaught EXCEPT ![r] = uncaught[r] \/ res.uncaught]
          /\ log' = [log EXCEPT ![r] = log[r] \o res.outcomes]
          /\ straddled' = [straddled EXCEPT ![r] =
                             straddled[r] \/ (buffer[c] # <<>> /\ res.outcomes # <<>>)]
          /\ appended' = [appended EXCEPT ![r] = appended[r] \o toString(chunk)]
  /\ UNCHANGED <<variant, stream, ended, disconnected>>

\* (mutant) the end of the upstream is answered with a sentinel of the proxy's
\* own before the sink is closed
EndWritesDone(r) ==
  /\ ~ended[r]
  /\ ended' = [ended EXCEPT ![r] = TRUE]
  /\ out' = [out EXCEPT ![r] = Append(out[r], DoneFrame)]
  /\ UNCHANGED <<variant, stream, pos, buffer, reasoningStarted, uncaught,
                  log, straddled, appended, disconnected>>

\* response.data.on('end', () => res.end())
End(r) ==
  /\ ~ended[r]
  /\ ended' = [ended EXCEPT ![r] = TRUE]
  /\ UNCHANGED <<variant, stream, pos, buffer, reasoningStarted, out, uncaught,
                  log, straddled, appended, disconnected>>

\* response.data.on('error', ...): res.end()
Error(r) ==
  /\ ~ended[r]
  /\ ended' = [ended EXCEPT ![r] = TRUE]
  /\ UNCHANGED <<variant, stream, pos, buffer, reasoningStarted, out, uncaught,
                  log, straddled, appended, disconnected>>

\* The downstream client of request r closes its connection while the response
\* is being streamed.  The streaming branch registers no listener on req or res
\* and tests neither before res.write: nothing of the handler runs.
Disconnect(r) ==
  /\ ~ended[r]
  /\ ~disconnected[r]
  /\ disconnected' = [disconnected EXCEPT ![r] = TRUE]
  /\ UNCHANGED <<variant, stream, pos, buffer, reasoningStarted, out, ended,
                  uncaught, log, straddled, appended>>

Next == \E r \in Requests : Data(r) \/ End(r) \/ Error(r) \/ Disconnect(r)

Spec == Init({1}, Streams) /\ [][Next]_vars
SpecIso == Init({1, 2}, IsoStreams) /\ [][Next]_vars

\* ================================================================== claims
\* the entries of the log that decoded to an event with a delta
IsDelta(e) == e.path = "delta"
DeltaLog(r) == SelectSeq(log[r], IsDelta)
\* R and C of a decoded delta, and the content it was given
ReasoningOf(e) == Get(e.incoming, "reasoning_content")
ContentOf(e) == Get(e.incoming, "content")
NewContentOf(e) == Get(e.rewritten, "content")
\* the text of a value: empty for an absent, null or empty one
TextOf(v) == IF Truthy(v) THEN v.s ELSE <<>>
\* the line was written as exactly one frame whose content is c
WrittenWith(e, c) ==
  Len(e.writes) = 1 /\ e.writes[1].payload = "json"
    /\ Get(e.writes[1].delta, "content") = c

\* one row of the transition table
C1_Row(e) ==
  LET R == ReasoningOf(e)
      C == ContentOf(e)
  IN /\ (~e.before /\ Truthy(R)) =>
          (NewContentOf(e) = Str(<<THINK_OPEN>> \o R.s) /\ e.after)
     /\ (e.before /\ Truthy(R)) => (NewContentOf(e) = R /\ e.after)
     /\ (e.before /\ ~Truthy(R)) =>
          (NewContentOf(e) = Str(<<THINK_CLOSE>> \o TextOf(C)) /\ ~e.after)
     /\ (~e.before /\ ~Truthy(R)) =>
          (TextOf(NewContentOf(e)) = TextOf(C) /\ ~e.after)

\* deltas i..j-1 carry reasoning, delta j carries content and no reasoning
C1_IsRun(d, i, j) ==
  /\ i < j
  /\ ~d[i].before
  /\ \A k \in i..(j-1) : Truthy(ReasoningOf(d[k]))
  /\ ~Truthy(ReasoningOf(d[j])) /\ Truthy(ContentOf(d[j]))

\* C1: in both variants the first delta is decoded in state CLOSED, every delta
\* is decoded in the state the one before it left, and every decoded delta is
\* rewritten by the row of the transition table for its state and its R; a run
\* of reasoning deltas R1..Rn begun in CLOSED and followed by a content delta C
\* is written as "<think>\n"+R1, R2, ..., Rn, "</think>\n\n"+C.
C1_TransitionTable ==
  \A r \in Requests :
    LET d == DeltaLog(r)
    IN /\ d # <<>> => ~d[1].before
       /\ \A i \in 1..Len(d) : C1_Row(d[i])
       /\ \A i \in 1..(Len(d)-1) : d[i+1].before = d[i].after
       /\ \A i \in 1..Len(d) : \A j \in 1..Len(d) :
            C1_IsRun(d, i, j) =>
              /\ WrittenWith(d[i], Str(<<THINK_OPEN>> \o ReasoningOf(d[i]).s))
              /\ \A k \in (i+1)..(j-1) : WrittenWith(d[k], ReasoningOf(d[k]))
              /\ WrittenWith(d[j], Str(<<THINK_CLOSE>> \o ContentOf(d[j]).s))

\* a run of two reasoning deltas and a content delta has been processed
C1_Witness ==
  \E r \in Requests :
    LET d == DeltaLog(r)
    IN Len(d) = 3 /\ C1_IsRun(d, 1, 3) /\ Len(out[r]) = 3

\* the state the handler is in after the bytes received so far, had they come
\* as one chunk
OneChunk(r) == OnData(variant, <<>>, FALSE, Received(r))
LinesOf(outcomes) == [i \in 1..Len(outcomes) |-> outcomes[i].line]

\* C3: however the bytes received so far were cut into chunks, the lines
\* processed, the frames written and reasoningStarted are those of the same
\* bytes delivered as one chunk.
C3_SplitInvariance ==
  \A r \in Requests :
    /\ LinesOf(log[r]) = LinesOf(OneChunk(r).outcomes)
    /\ out[r] = OneChunk(r).writes
    /\ reasoningStarted[r] = OneChunk(r).reasoningStarted

\* the lines, each followed by a line break
RECURSIVE JoinLines(_)
JoinLines(lines) ==
  IF lines = <<>> THEN <<>> ELSE Head(lines) \o <<LF>> \o JoinLines(Tail(lines))

\* C4: the lines handed to processing so far, each followed by a line break,
\* followed by the buffer, are exactly the text of the chunks received, put
\* together.
C4_NoDuplicationNoLoss ==
  \A r \in Requests :
    JoinLines(LinesOf(log[r])) \o buffer[r] = toString(Received(r))

\* C2: no frame written downstream has a reasoning_content property in its
\* delta, whatever the value the incoming delta gave it.
C2_NoReasoningField ==
  \A r \in Requests :
    \A i \in 1..Len(out[r]) : ~Has(out[r][i].delta, "reasoning_content")

\* the lines of a text that are ended by a line break, and all its lines, the
\* unterminated last one included when it is not empty
CompleteLines(text) == pop(split(text)).rest
AllLines(text) ==
  LET p == pop(split(text))
  IN IF p.last = <<>> THEN p.rest ELSE Append(p.rest, p.last)

\* C5: once the upstream has ended and the sink is closed, the frames written
\* are those of all the lines received, the unterminated last one included.
C5_FlushAtEnd ==
  \A r \in Requests :
    ended[r] => out[r] = Writes(ForLines(variant, FALSE, AllLines(appended[r])))

\* C6: an event with a delta is written if and only if it is not the case that
\* its rewritten content is empty and reasoningStarted is as it was before.
C6_SuppressionRule ==
  \A r \in Requests :
    \A i \in 1..Len(DeltaLog(r)) :
      LET e == DeltaLog(r)[i]
      IN (e.writes # <<>>) <=> ~(~Truthy(NewContentOf(e)) /\ e.before = e.after)

\* the line, trimmed, is 'data: [DONE]'
C7_IsDoneLine(line) == trim(line) = Prefix \o DONE
C7_IsDoneFrame(frame) == frame = DoneFrame

\* C7: a line whose payload is [DONE] is not decoded, writes the one frame
\* 'data: [DONE]' and nothing else, and leaves reasoningStarted as it was; the
\* sentinel frames written are as many as the complete [DONE] lines received.
C7_DonePassThrough ==
  \A r \in Requests :
    /\ \A i \in 1..Len(log[r]) :
         LET e == log[r][i]
         IN C7_IsDoneLine(e.line) =>
              (e.path = "[DONE]" /\ e.writes = <<DoneFrame>> /\ e.after = e.before)
    /\ Len(SelectSeq(out[r], C7_IsDoneFrame))
         = Len(SelectSeq(CompleteLines(toString(Received(r))), C7_IsDoneLine))

\* a [DONE] line was processed while a reasoning block was open
C7_Witness ==
  \E r \in Requests :
    \E i \in 1..Len(log[r]) :
      C7_IsDoneLine(log[r][i].line) /\ log[r][i].before
        /\ out[r][Len(out[r])] = DoneFrame

\* the line is a 'data: ' line, not the sentinel, whose payload cannot be
\* decoded or decodes to null
C8_Malformed(line) ==
  LET t == trim(line)
      payload == SubSeq(t, Len(Prefix) + 1, Len(t))
  IN startsWith(t, Prefix) /\ payload # DONE
       /\ (JSONparse(payload).threw \/ JSONparse(payload).null)
C8_WellFormed(line) == ~C8_Malformed(line)

\* C8: no exception leaves the data callback; a malformed line writes nothing
\* and leaves reasoningStarted as it was; the frames written and
\* reasoningStarted are those of the complete lines of the text appended to the
\* buffer so far with the malformed ones taken out; the buffer is the
\* unterminated rest of that text.
C8_MalformedResilience ==
  \A r \in Requests :
    LET good == SelectSeq(CompleteLines(appended[r]), C8_WellFormed)
        ref == ForLines(variant, FALSE, good)
    IN /\ ~uncaught[r]
       /\ \A i \in 1..Len(log[r]) :
            C8_Malformed(log[r][i].line) =>
              (log[r][i].writes = <<>> /\ log[r][i].after = log[r][i].before)
       /\ out[r] = Writes(ref)
       /\ reasoningStarted[r] = (IF ref = <<>> THEN FALSE ELSE ref[Len(ref)].after)
       /\ buffer[r] = pop(split(appended[r])).last

\* a malformed line was processed while a reasoning block was open, and a
\* later line was written
C8_Witness ==
  \E r \in Requests :
    \E i \in 1..Len(log[r]) : \E j \in 1..Len(log[r]) :
      i < j /\ C8_Malformed(log[r][i].line) /\ log[r][i].before
        /\ log[r][j].writes # <<>>

\* text b follows text a somewhere in text s
C9_InOrder(s, a, b) ==
  \E i \in 1..Len(s) : \E j \in 1..Len(s) :
    /\ i + Len(a) <= j
    /\ j + Len(b) - 1 <= Len(s)
    /\ SubSeq(s, i, i + Len(a) - 1) = a
    /\ SubSeq(s, j, j + Len(b) - 1) = b

\* C9: a delta with non-empty reasoning R and non-empty content C is written
\* with a content that holds R and, after it, C.
C9_BothTextsForwarded ==
  \A r \in Requests :
    \A i \in 1..Len(DeltaLog(r)) :
      LET e == DeltaLog(r)[i]
      IN (Truthy(ReasoningOf(e)) /\ Truthy(ContentOf(e))) =>
           /\ Len(e.writes) = 1
           /\ C9_InOrder(TextOf(Get(e.writes[1].delta, "content")),
                         ReasoningOf(e).s, ContentOf(e).s)

\* the callbacks of request r did not run in this step
C10_Idle(r) == pos'[r] = pos[r] /\ ended'[r] = ended[r]

\* C10: with two requests in flight and their callbacks interleaved in any
\* order, the frames, the buffer and reasoningStarted of each request are those
\* of its own bytes alone, and a step of one request's callbacks leaves the
\* other's frames, buffer and reasoningStarted as they were.
C10_Isolation ==
  /\ [](\A r \in Requests :
          /\ out[r] = OnData(variant, <<>>, FALSE, Received(r)).writes
          /\ buffer[r] = OnData(variant, <<>>, FALSE, Received(r)).buffer
          /\ reasoningStarted[r]
               = OnData(variant, <<>>, FALSE, Received(r)).reasoningStarted)
  /\ [][\A r \in Requests :
          C10_Idle(r) => /\ out'[r] = out[r]
                         /\ buffer'[r] = buffer[r]
                         /\ reasoningStarted'[r] = reasoningStarted[r]]_vars

\* both requests are in flight; one has an open reasoning block and holds the
\* beginning of no line, the other has written a content frame with its
\* reasoning block closed
C10_Witness ==
  /\ Cardinality(Requests) = 2
  /\ \E r \in Requests : \E q \in Requests :
       /\ r # q /\ ~ended[r] /\ ~ended[q]
       /\ reasoningStarted[r] /\ straddled[r]
       /\ ~reasoningStarted[q] /\ straddled[q] /\ out[q] # <<>>

\* the frames of the processed lines, in the order of the lines
RECURSIVE C11_FramesInOrder(_)
C11_FramesInOrder(entries) ==
  IF entries = <<>> THEN <<>>
  ELSE Head(entries).writes \o C11_FramesInOrder(Tail(entries))

\* C11: the lines are processed in the order in which their line breaks
\* arrived, each processed line writes at most one frame, and the frames on the
\* sink are the frames of the processed lines, whole, in the order of the
\* lines.
C11_Ordering ==
  \A r \in Requests :
    /\ LinesOf(log[r]) = CompleteLines(appended[r])
    /\ \A i \in 1..Len(log[r]) : Len(log[r][i].writes) <= 1
    /\ out[r] = C11_FramesInOrder(log[r])

\* two lines have written a frame each, with a line that wrote none between
\* them
C11_Witness ==
  \E r \in Requests :
    \E i \in 1..Len(log[r]) : \E j \in 1..Len(log[r]) : \E k \in 1..Len(log[r]) :
      /\ i < j /\ j < k
      /\ log[r][i].writes # <<>> /\ log[r][j].writes = <<>> /\ log[r][k].writes # <<>>
      /\ Len(out[r]) = 2 /\ out[r][1] # out[r][2]

\* C12: once the downstream client of a request has disconnected, no step
\* writes a frame to the sink of that request.
C12_NoWriteAfterDisconnect ==
  [][\A r \in Requests : disconnected[r] => out'[r] = out[r]]_vars

\* the frame is the sentinel, or its content begins with the closing marker
C13_IsSynthetic(frame) ==
  \/ frame = DoneFrame
  \/ LET c == Get(frame.delta, "content")
     IN Truthy(c) /\ Head(c.s) = THINK_CLOSE

\* C13: a step in which the upstream ends or errors, whatever reasoningStarted
\* and the buffer are, closes the sink, leaves the frames written before as
\* they are, writes neither a 'data: [DONE]' frame nor a frame with the
\* closing marker, and lets no exception out.
C13_AbruptEnd ==
  [][\A r \in Requests :
       (~ended[r] /\ ended'[r]) =>
         /\ Len(out'[r]) >= Len(out[r])
         /\ SubSeq(out'[r], 1, Len(out[r])) = out[r]
         /\ \A i \in (Len(out[r]) + 1)..Len(out'[r]) : ~C13_IsSynthetic(out'[r][i])
         /\ uncaught'[r] = uncaught[r]]_vars

\* the upstream ended while a reasoning block was open and the buffer held the
\* beginning of a line; no sentinel and no closing marker is on the sink
C13_Witness ==
  \E r \in Requests :
    /\ ended[r] /\ reasoningStarted[r] /\ buffer[r] # <<>>
    /\ out[r] # <<>>
    /\ \A i \in 1..Len(out[r]) : ~C13_IsSynthetic(out[r][i])

\* the event a 'data: ' line carries
C14_EventOf(line) == JSONparse(replace(trim(line), Prefix))

\* the line was written as one frame that carries the event as it came
C14_PassedThrough(e) ==
  /\ Len(e.writes) = 1
  /\ e.writes[1].payload = "json"
  /\ e.writes[1].delta = C14_EventOf(e.line).delta
  /\ e.writes[1].rest = C14_EventOf(e.line).rest
  /\ ~e.after

\* C14 as stated: a delta with a content property (whatever its value) and no
\* reasoning_content property, decoded in state CLOSED, is written with its
\* content and every other property of the event as they came, and the state
\* stays CLOSED.
C14_PassThroughAnyContent ==
  \A r \in Requests :
    \A i \in 1..Len(DeltaLog(r)) :
      LET e == DeltaLog(r)[i]
      IN (Has(e.incoming, "content") /\ ~Has(e.incoming, "reasoning_content")
            /\ ~e.before) => C14_PassedThrough(e)

\* C14 as amended: the same for a delta whose content is not empty.
C14_PassThrough ==
  \A r \in Requests :
    \A i \in 1..Len(DeltaLog(r)) :
      LET e == DeltaLog(r)[i]
      IN (Truthy(ContentOf(e)) /\ ~Has(e.incoming, "reasoning_content")
            /\ ~e.before) => C14_PassedThrough(e)

\* an event with an id, a finish_reason, a role and a content was decoded in
\* state CLOSED and written, after another frame
C14_Witness ==
  \E r \in Requests :
    \E j \in 2..Len(log[r]) :
      /\ log[r][j].line = Event("{id,role,cC") /\ ~log[r][j].before
      /\ Len(out[r]) = 2
      /\ Has(out[r][2].rest, "finish_reason")
      /\ Has(out[r][2].delta, "role")

\* the number of line breaks in a text
RECURSIVE C15_LineBreaks(_)
C15_LineBreaks(text) ==
  IF text = <<>> THEN 0
  ELSE (IF Head(text) = LF THEN 1 ELSE 0) + C15_LineBreaks(Tail(text))

\* the text after the last line break of a text
RECURSIVE C15_AfterLastBreak(_)
C15_AfterLastBreak(text) ==
  IF C15_LineBreaks(text) = 0 THEN text ELSE C15_AfterLastBreak(Tail(text))

\* C15: after every data callback the buffer holds no line break and is the
\* text received after the last line break; the lines processed are as many as
\* the line breaks received; and a callback writes the frames of the lines it
\* completes before it returns: the frames on the sink grow, in the step that
\* delivers a line break, by the frames of the lines that step processed.
C15_LineBuffer ==
  /\ [](\A r \in Requests :
          /\ C15_LineBreaks(buffer[r]) = 0
          /\ Len(log[r]) = C15_LineBreaks(Received(r))
          /\ buffer[r] = C15_AfterLastBreak(appended[r]))
  /\ [][\A r \in Requests :
          /\ Len(log'[r]) >= Len(log[r])
          /\ out'[r] = out[r] \o C11_FramesInOrder(SubSeq(log'[r], Len(log[r]) + 1,
                                                          Len(log'[r])))]_vars

\* a callback has processed a line that came in several chunks and written its
\* frame, and the beginning of the next line is in the buffer
C15_Witness ==
  \E r \in Requests :
    /\ straddled[r] /\ buffer[r] # <<>>
    /\ Len(log[r]) = 1 /\ Len(out[r]) = 1

\* C16: a step that delivers a chunk leaves the sink open, whatever the chunk
\* carries; and once the sink is closed it stays closed and no frame is
\* written to it.
C16_ClosedOnlyOnEnd ==
  [][\A r \in Requests :
       /\ pos'[r] # pos[r] => ended'[r] = ended[r]
       /\ ended[r] => (ended'[r] /\ out'[r] = out[r])]_vars

\* the sentinel was written, the sink is still open, and a frame has been
\* written after the sentinel
C16_Witness ==
  \E r \in Requests :
    /\ ~ended[r]
    /\ Len(out[r]) = 2 /\ out[r][1] = DoneFrame /\ out[r][2] # DoneFrame

\* the line, trimmed, begins with 'data: '
C17_IsEventLine(line) == startsWith(trim(line), Prefix)
\* the line is an event line whose payload decodes to an event with a delta
C17_HasDelta(line) ==
  /\ C17_IsEventLine(line)
  /\ replace(trim(line), Prefix) # DONE
  /\ C14_EventOf(line).hasDelta

\* C17: a complete line that, trimmed, does not begin with 'data: ' writes
\* nothing and leaves reasoningStarted as it was; reasoningStarted is FALSE
\* before the first line, each line is processed with the value the line before
\* it left, the variable holds the value the last line left, and a line that
\* changes it decoded to an event with a delta.
C17_IgnoredLines ==
  \A r \in Requests :
    /\ \A i \in 1..Len(log[r]) :
         LET e == log[r][i]
         IN /\ ~C17_IsEventLine(e.line) => (e.writes = <<>> /\ e.after = e.before)
            /\ e.after # e.before => C17_HasDelta(e.line)
            /\ e.before = (IF i = 1 THEN FALSE ELSE log[r][i-1].after)
    /\ reasoningStarted[r] = (IF log[r] = <<>> THEN FALSE ELSE log[r][Len(log[r])].after)

\* a line of JSON without 'data: ' before it was processed while a reasoning
\* block was open, and the block is still open
C17_Witness ==
  \E r \in Requests :
    \E i \in 1..Len(log[r]) :
      /\ log[r][i].line = <<"{cC", Closing>>
      /\ log[r][i].before
      /\ reasoningStarted[r]
      /\ Len(out[r]) = 1

\* the markers at the beginning of the contents of a sequence of deltas, in
\* order
RECURSIVE C18_Markers(_)
C18_Markers(deltas) ==
  IF deltas = <<>> THEN <<>>
  ELSE LET c == Get(Head(deltas), "content")
       IN (IF Truthy(c) /\ Head(c.s) \in {THINK_OPEN, THINK_CLOSE}
           THEN <<Head(c.s)>> ELSE <<>>) \o C18_Markers(Tail(deltas))
C18_Rewritten(r) == [i \in 1..Len(DeltaLog(r)) |-> DeltaLog(r)[i].rewritten]
C18_Written(r) == [i \in 1..Len(out[r]) |-> out[r][i].delta]

\* C18: the markers the handler has put into deltas are, in order, opening,
\* closing, opening, ...: the first is an opening marker and no two of a kind
\* follow each other; there is one opening marker more than closing markers
\* when reasoningStarted is TRUE and as many when it is FALSE; and the markers
\* on the sink are the same sequence.
C18_MarkerAlternation ==
  \A r \in Requests :
    LET m == C18_Markers(C18_Rewritten(r))
    IN /\ \A i \in 1..Len(m) :
            m[i] = (IF i % 2 = 1 THEN THINK_OPEN ELSE THINK_CLOSE)
       /\ reasoningStarted[r] <=> (Len(m) % 2 = 1)
       /\ C18_Markers(C18_Written(r)) = m

\* a reasoning block was opened, closed, and a second one opened
C18_Witness ==
  \E r \in Requests :
    /\ C18_Markers(C18_Written(r)) = <<THINK_OPEN, THINK_CLOSE, THINK_OPEN>>
    /\ reasoningStarted[r]

\* the line is an event line whose payload decodes to an object without
\* choices[0].delta
C19_NoDelta(line) ==
  /\ C17_IsEventLine(line)
  /\ replace(trim(line), Prefix) # DONE
  /\ ~C14_EventOf(line).threw
  /\ ~C14_EventOf(line).null
  /\ ~C14_EventOf(line).hasDelta

\* C19: an event line whose payload is valid JSON without choices[0].delta
\* writes nothing and leaves reasoningStarted as it was, in either state.
C19_NoDeltaIgnored ==
  \A r \in Requests :
    \A i \in 1..Len(log[r]) :
      C19_NoDelta(log[r][i].line) =>
        (log[r][i].writes = <<>> /\ log[r][i].after = log[r][i].before)

\* a usage-only event was processed while a reasoning block was open; the
\* opening frame is the only frame on the sink
C19_Witness ==
  \E r \in Requests :
    /\ Len(log[r]) = 2
    /\ log[r][2].line = Event("{usage") /\ log[r][2].before
    /\ reasoningStarted[r]
    /\ Len(out[r]) = 1
====
